---- MODULE Spec2Model ----
(***************************************************************************)
(* Model of the data-scraper API client                                    *)
(* (src/agents/data-scraper/src/clients/api_client.py): the rate-limited,  *)
(* retrying make_request, its header preparation and the restricted        *)
(* JSON-path extraction.                                                   *)
(*                                                                         *)
(* Time is counted in whole seconds.  The transport (session.request) is   *)
(* the environment: for each make_request call a script says what the      *)
(* i-th call to the transport would answer.                                *)
(***************************************************************************)
EXTENDS Integers, Sequences, FiniteSets, TLC

\* ------------------------------------------------------------------ bounds
\* largest requests_per_minute / requests_per_hour of a policy
MaxLimit == 2
\* largest endpoint.retry_attempts
MaxRetry == 1
\* make_request calls per behaviour
MaxCalls == 3
\* idle clock advances per behaviour
MaxTicks == 1
\* segments of a data path
MaxSegments == 2
\* largest delay_between_requests of a policy
MaxDelay == 2
\* longest field text tried by the field filters
MaxLen == 3
\* largest min or max of a number filter
MaxBound == 2
\* endpoints of a scraping configuration
MaxEndpoints == 3
\* records in the list an endpoint returns
MaxRecords == 2
\* parts a content type is written with
MaxParts == 2

\* ------------------------------------------------------- program constants
HourWindow == 3600
MinuteWindow == 60
ErrorStatus == 400
BackoffBase == 2

\* seconds that may pass between two operations of the client
TickDeltas == {1, 59, 60, 3600}
\* seconds a call to the transport may take
Latency == {0, 1}
\* what one call to the transport can do: raise aiohttp ClientError, run
\* into the ClientTimeout(total=endpoint.timeout) of the call, which aiohttp
\* reports as asyncio.TimeoutError, or answer with a status
Statuses == {200, 500}
Answer(status) == [ raises |-> "none", status |-> status ]
ClientError == [ raises |-> "ClientError", status |-> 0 ]
TimeoutError == [ raises |-> "TimeoutError", status |-> 0 ]
Outcomes == {ClientError, TimeoutError} \cup { Answer(s) : s \in Statuses }
\* what reading the body of a response can do: succeed, raise a ClientError
\* (the connection breaks), or raise a decoding error
BodyReads == {"ok", "ClientError", "DecodeError"}

VARIABLES
    rate_limit,      \* self.rate_limit
    request_times,   \* self.request_times
    session,         \* self.session: "none", "open" or "closed"
    now,             \* time.time()
    pc,              \* "idle", "attempt" (inside the retry loop), "done"
    endpoint,        \* the endpoint of the call in progress
    request_kwargs,  \* keys left in the local request_kwargs dict
    attempt,         \* loop variable of the retry loop
    script,          \* what the transport answers to its i-th call, up to
                     \* the call that would come next
    calls,           \* calls to session.request made by this make_request
    waits,           \* asyncio.sleep durations of the retry loop, in order
    paced,           \* asyncio.sleep duration of _check_rate_limit
    dropped,         \* entries the admission check of this call pruned
    response_status, \* status of the response received, 0 if none
    body_read,       \* how reading the body of that response went
    result,          \* "none", "ok" or the name of the exception raised
    nreq,            \* make_request calls started so far
    ticks,           \* idle clock advances so far
    h_config,        \* header preparation: endpoint.headers and authentication
    h_headers,       \* header preparation: the headers passed to the transport
    x_input,         \* path extraction: data and data_path
    x_output,        \* path extraction: what _extract_data_path did
    f_input,         \* field filter: value and filter_config
    f_output,        \* field filter: what _apply_filter returned
    t_input,         \* record transformation: record and the three configs
    t_output,        \* record transformation: what _transform_record did
    j_endpoints,     \* job: names of current_config.endpoints, in order
    j_pc,            \* job: "start", "loaded", "loop", "output" or "done"
    j_session,       \* job: session of self.api_client
    j_fetched,       \* job: positions of the endpoints fetched, in order
    j_outcomes,      \* job: what each of those fetches did
    endpoints_scraped, \* local of _execute_scraping_phase
    records_processed, \* local of _execute_scraping_phase
    scraped_data,    \* local of _execute_scraping_phase: its keys, in order
    scraping_result, \* self.scraping_result
    j_raised,        \* job: exception execute_scraping_job raised, or "none"
    p_input,         \* response parsing: content type and body
    p_output         \* response parsing: what _parse_response did

vars == << rate_limit, request_times, session, now, pc, endpoint,
           request_kwargs, attempt, script, calls, waits, paced,
           dropped, response_status, body_read, result, nreq, ticks,
           h_config, h_headers, x_input, x_output, f_input, f_output,
           t_input, t_output, j_endpoints, j_pc, j_session, j_fetched,
           j_outcomes, endpoints_scraped, records_processed, scraped_data,
           scraping_result, j_raised, p_input, p_output >>

clientVars == << rate_limit, request_times, session, now, pc, endpoint,
                 request_kwargs, attempt, script, calls, waits, paced,
                 dropped, response_status, body_read, result, nreq, ticks >>
headerVars == << h_config, h_headers >>
pathVars == << x_input, x_output >>
filterVars == << f_input, f_output >>
recordVars == << t_input, t_output >>
jobVars == << j_endpoints, j_pc, j_session, j_fetched, j_outcomes,
              endpoints_scraped, records_processed, scraped_data,
              scraping_result, j_raised >>
parseVars == << p_input, p_output >>

\* ------------------------------------------------------------ rate limiter
Range(s) == { s[i] : i \in 1..Len(s) }

MinOf(s) == CHOOSE m \in Range(s) : \A x \in Range(s) : m <= x

\* Prune keeping an entry that is exactly one hour old
PruneInclusive(times, current_time) ==
    SelectSeq(times, LAMBDA t : current_time - t <= HourWindow)

\* request_times = [t for t in request_times if current_time - t < 3600]
Prune(times, current_time) ==
    SelectSeq(times, LAMBDA t : current_time - t < HourWindow)

\* recent_requests = [t for t in request_times if current_time - t < 60]
Recent(times, current_time) ==
    SelectSeq(times, LAMBDA t : current_time - t < MinuteWindow)

\* One window check that lets a log holding exactly `limit` entries through
WindowCheckLenient(times, limit, window, current_time, error) ==
    IF Len(times) > limit
    THEN IF times = << >>
         THEN "ValueError"
         ELSE IF window - (current_time - MinOf(times)) > 0
              THEN error
              ELSE "none"
    ELSE "none"

\* One window check: len(times) >= limit, then min(times) (ValueError on an
\* empty list), then wait_time > 0.
WindowCheck(times, limit, window, current_time, error) ==
    IF Len(times) >= limit
    THEN IF times = << >>
         THEN "ValueError"
         ELSE IF window - (current_time - MinOf(times)) > 0
              THEN error
              ELSE "none"
    ELSE "none"

\* The pacing sleep taken as the whole delay whenever the last entry is too
\* recent
PacingWaitWholeDelay(times, rl, current_time) ==
    IF times # << >> /\ rl.delay_between_requests > 0
    THEN IF current_time - times[Len(times)] < rl.delay_between_requests
         THEN rl.delay_between_requests
         ELSE 0
    ELSE 0

\* No pacing sleep at all
PacingWaitNever(times, rl, current_time) == 0

\* The pacing sleep: delay_between_requests minus the age of the last entry.
PacingWait(times, rl, current_time) ==
    IF times # << >> /\ rl.delay_between_requests > 0
    THEN LET time_since_last == current_time - times[Len(times)]
         IN  IF time_since_last < rl.delay_between_requests
             THEN rl.delay_between_requests - time_since_last
             ELSE 0
    ELSE 0

\* _check_rate_limit with the pacing sleep taken before the limits are checked
CheckRateLimitPaceFirst(times, rl, current_time) ==
    LET kept   == Prune(times, current_time)
        hourly == WindowCheck(kept, rl.requests_per_hour, HourWindow,
                              current_time, "RateLimitExceededError")
        minute == WindowCheck(Recent(kept, current_time),
                              rl.requests_per_minute, MinuteWindow,
                              current_time, "RateLimitExceededError")
    IN  [ request_times |-> kept,
          raised        |-> IF hourly # "none" THEN hourly ELSE minute,
          sleep         |-> PacingWait(kept, rl, current_time) ]

\* _check_rate_limit: the pruned log, the exception raised ("none" if the
\* call is admitted) and the pacing sleep.
CheckRateLimit(times, rl, current_time) ==
    LET kept   == Prune(times, current_time)
        hourly == WindowCheck(kept, rl.requests_per_hour, HourWindow,
                              current_time, "RateLimitExceededError")
        minute == WindowCheck(Recent(kept, current_time),
                              rl.requests_per_minute, MinuteWindow,
                              current_time, "RateLimitExceededError")
        raised == IF hourly # "none" THEN hourly ELSE minute
    IN  [ request_times |-> kept,
          raised        |-> raised,
          sleep         |-> IF raised = "none"
                            THEN PacingWait(kept, rl, current_time)
                            ELSE 0 ]

\* ---------------------------------------------------------------- retries
\* the status test with the threshold taken as "above 500"
StatusIsErrorAbove500(status) == status > 500

\* if response.status >= 400
StatusIsError(status) == status >= ErrorStatus

\* except ClientError: the only outcome the loop retries; asyncio.TimeoutError
\* is not a ClientError
IsTransient(outcome) == outcome.raises = "ClientError"

\* if attempt == endpoint.retry_attempts: give up
LastAttempt(a, ep) == a = ep.retry_attempts

\* a backoff that grows by the base at every attempt instead of doubling
BackoffLinear(a) == BackoffBase * a

\* await asyncio.sleep(2 ** attempt)
Backoff(a) == BackoffBase ^ a

\* the keys of request_kwargs the loop body pops
PoppedKeys == {"url", "headers", "timeout", "params", "json"}

\* the limits tried: no request allowed, one, and the largest
Limits == {0, 1, MaxLimit}

Policies ==
    [ requests_per_minute    : Limits,
      requests_per_hour      : Limits,
      delay_between_requests : {0, MaxDelay} ]

Endpoints == [ retry_attempts : 0..MaxRetry ]

NoEndpoint == [ retry_attempts |-> 0 ]

\* ------------------------------------------------------------------- state
\* the header preparation and the path extraction are not in use
HeadersUnused == h_config = "unused" /\ h_headers = "unused"
PathUnused == x_input = "unused" /\ x_output = "unused"
FilterUnused == f_input = "unused" /\ f_output = "unused"
RecordUnused == t_input = "unused" /\ t_output = "unused"
JobUnused ==
    /\ j_endpoints = "unused" /\ j_pc = "unused" /\ j_session = "unused"
    /\ j_fetched = "unused" /\ j_outcomes = "unused"
    /\ endpoints_scraped = 0 /\ records_processed = 0
    /\ scraped_data = "unused" /\ scraping_result = "unused"
    /\ j_raised = "unused"
ParseUnused == p_input = "unused" /\ p_output = "unused"

\* ApiClient.__init__
ClientInit ==
    /\ rate_limit \in Policies
    /\ request_times = << >>
    /\ session = "none"
    /\ now = 0
    /\ pc = "idle"
    /\ endpoint = NoEndpoint
    /\ request_kwargs = {}
    /\ attempt = 0
    /\ script = << >>
    /\ calls = 0
    /\ waits = << >>
    /\ paced = 0
    /\ dropped = 0
    /\ response_status = 0
    /\ body_read = "none"
    /\ result = "none"
    /\ nreq = 0
    /\ ticks = 0

Init ==
    /\ ClientInit
    /\ HeadersUnused
    /\ PathUnused
    /\ FilterUnused
    /\ RecordUnused
    /\ JobUnused
    /\ ParseUnused

\* a client that is constructed and never used
ClientUnused ==
    /\ ClientInit
    /\ rate_limit = [ requests_per_minute    |-> MaxLimit,
                      requests_per_hour      |-> MaxLimit,
                      delay_between_requests |-> 0 ]

callVars == << endpoint, request_kwargs, attempt, script, calls, waits,
               paced, dropped, response_status, body_read, result >>

\* ApiClient.__aenter__
aenter ==
    /\ pc = "idle"
    /\ session' = "open"
    /\ UNCHANGED << rate_limit, request_times, now, pc, callVars, nreq, ticks,
                    headerVars, pathVars,
                    filterVars, recordVars, jobVars, parseVars >>

\* ApiClient.__aexit__: closes the session, the attribute keeps the object
aexit ==
    /\ pc = "idle"
    /\ session' = IF session # "none" THEN "closed" ELSE session
    /\ UNCHANGED << rate_limit, request_times, now, pc, callVars, nreq, ticks,
                    headerVars, pathVars,
                    filterVars, recordVars, jobVars, parseVars >>

\* time passing between two operations
Tick ==
    /\ pc = "idle"
    /\ ticks < MaxTicks
    /\ \E d \in TickDeltas : now' = now + d
    /\ ticks' = ticks + 1
    /\ UNCHANGED << rate_limit, request_times, session, pc, callVars, nreq,
                    headerVars, pathVars,
                    filterVars, recordVars, jobVars, parseVars >>

\* make_request up to the retry loop: _check_rate_limit, then the request
\* parameters are prepared
make_request ==
    /\ pc = "idle"
    /\ nreq < MaxCalls
    /\ nreq' = nreq + 1
    /\ \E ep \in Endpoints : \E first \in Outcomes :
         LET c == CheckRateLimit(request_times, rate_limit, now)
         IN  /\ request_times' = c.request_times
             /\ dropped' = Len(request_times) - Len(c.request_times)
             /\ paced' = c.sleep
             /\ now' = now + c.sleep
             /\ IF c.raised # "none"
                THEN /\ pc' = "done"
                     /\ result' = c.raised
                     /\ endpoint' = NoEndpoint
                     /\ script' = << >>
                     /\ request_kwargs' = {}
                ELSE /\ pc' = "attempt"
                     /\ result' = "none"
                     /\ endpoint' = ep
                     /\ script' = << first >>
                     /\ request_kwargs' = {"url", "headers", "timeout"}
    /\ attempt' = 0
    /\ calls' = 0
    /\ waits' = << >>
    /\ response_status' = 0
    /\ body_read' = "none"
    /\ UNCHANGED << rate_limit, session, ticks, headerVars, pathVars,
                    filterVars, recordVars, jobVars, parseVars >>

\* the call ends by raising `error`
Raise(error) ==
    /\ pc' = "done"
    /\ result' = error

\* except ClientError, entered at time t: give up on the last attempt,
\* otherwise sleep 2 ** attempt and go round the loop again
Retry(t) ==
    IF LastAttempt(attempt, endpoint)
    THEN /\ Raise("ApiClientError")
         /\ now' = t
         /\ UNCHANGED << attempt, waits >>
    ELSE /\ now' = t + Backoff(attempt)
         /\ waits' = Append(waits, Backoff(attempt))
         /\ attempt' = attempt + 1
         /\ UNCHANGED << pc, result >>

\* one iteration of the retry loop of make_request
Attempt ==
    /\ pc = "attempt"
    /\ IF session = "none"
       THEN \* raise ApiClientError("Session not initialized")
            /\ Raise("ApiClientError")
            /\ UNCHANGED << request_times, now, request_kwargs, attempt,
                            calls, waits, response_status, body_read,
                            script >>
       ELSE IF "url" \notin request_kwargs
       THEN \* request_kwargs.pop("url") raises KeyError: except Exception
            /\ Raise("ApiClientError")
            /\ UNCHANGED << request_times, now, request_kwargs, attempt,
                            calls, waits, response_status, body_read,
                            script >>
       ELSE /\ request_kwargs' = request_kwargs \ PoppedKeys
            /\ calls' = calls + 1
            /\ IF session = "closed"
               THEN \* RuntimeError("Session is closed"): except Exception
                    /\ Raise("ApiClientError")
                    /\ UNCHANGED << request_times, now, attempt, waits,
                                    response_status, body_read, script >>
               ELSE \E lat \in Latency : \E upcoming \in Outcomes :
                    LET outcome == script[calls + 1]
                    IN  /\ script' = Append(script, upcoming)
                        /\ IF IsTransient(outcome)
                            THEN \* session.request raises ClientError
                                 /\ Retry(now + lat)
                                 /\ UNCHANGED << request_times, response_status,
                                                 body_read >>
                            ELSE IF outcome.raises = "TimeoutError"
                            THEN \* asyncio.TimeoutError: except Exception
                                 /\ Raise("ApiClientError")
                                 /\ now' = now + lat
                                 /\ UNCHANGED << request_times, attempt, waits,
                                                 response_status, body_read >>
                            ELSE \* a response: its time is recorded, then its
                                 \* body is read (response.text, response.json)
                                 /\ request_times' = Append(request_times, now + lat)
                                 /\ response_status' = outcome.status
                                 /\ \E body \in BodyReads :
                                      /\ body_read' = body
                                      /\ IF body = "ClientError"
                                         THEN Retry(now + lat)
                                         ELSE /\ now' = now + lat
                                              /\ UNCHANGED << attempt, waits >>
                                              /\ IF StatusIsError(outcome.status)
                                                    \/ body = "DecodeError"
                                                 THEN Raise("ApiClientError")
                                                 ELSE /\ pc' = "done"
                                                      /\ result' = "ok"
    /\ UNCHANGED << rate_limit, session, endpoint, paced, dropped,
                    nreq, ticks, headerVars, pathVars,
                    filterVars, recordVars, jobVars, parseVars >>

\* the caller has the outcome of the call
Return ==
    /\ pc = "done"
    /\ pc' = "idle"
    /\ endpoint' = NoEndpoint
    /\ request_kwargs' = {}
    /\ attempt' = 0
    /\ script' = << >>
    /\ calls' = 0
    /\ waits' = << >>
    /\ paced' = 0
    /\ dropped' = 0
    /\ response_status' = 0
    /\ body_read' = "none"
    /\ result' = "none"
    /\ UNCHANGED << rate_limit, request_times, session, now, nreq, ticks,
                    headerVars, pathVars,
                    filterVars, recordVars, jobVars, parseVars >>

Next ==
    \/ aenter
    \/ aexit
    \/ Tick
    \/ make_request
    \/ Attempt
    \/ Return

Spec == Init /\ [][Next]_vars

\* ------------------------------------------------------ header preparation
\* Python's None
None == "None"

\* the truth value of an optional string: None and "" are false
Truthy(v) == v # None /\ v # ""

\* A dict is a function on its keys.  A header value is the sequence of the
\* strings it is the concatenation of.
EmptyDict == [ k \in {} |-> << >> ]

\* d.update(other) on a copy of d: the keys of `other` take its values
DictUpdate(d, other) ==
    [ k \in (DOMAIN d) \cup (DOMAIN other) |->
        IF k \in DOMAIN other THEN other[k] ELSE d[k] ]

\* base64.b64encode(f"{username}:{password}".encode()).decode()
Base64(username, password) == << "base64(", username, ":", password, ")" >>

\* ApiClient._build_auth_headers
BuildAuthHeaders(authentication) ==
    IF authentication.type = "api_key"
    THEN IF Truthy(authentication.api_key_name)
            /\ Truthy(authentication.api_key_value)
         THEN [ k \in {authentication.api_key_name} |->
                  << authentication.api_key_value >> ]
         ELSE EmptyDict
    ELSE IF authentication.type = "bearer_token"
    THEN IF Truthy(authentication.bearer_token)
         THEN [ k \in {"Authorization"} |->
                  << "Bearer ", authentication.bearer_token >> ]
         ELSE EmptyDict
    ELSE IF authentication.type = "basic_auth"
    THEN IF Truthy(authentication.username) /\ Truthy(authentication.password)
         THEN [ k \in {"Authorization"} |->
                  << "Basic " >> \o Base64(authentication.username,
                                           authentication.password) ]
         ELSE EmptyDict
    ELSE EmptyDict

\* the merge with the endpoint's headers written over the auth headers
RequestHeadersEndpointLast(endpoint_headers, authentication) ==
    DictUpdate(BuildAuthHeaders(authentication), endpoint_headers)

\* headers = endpoint.headers.copy()
\* headers.update(self._build_auth_headers(authentication))
RequestHeaders(endpoint_headers, authentication) ==
    DictUpdate(endpoint_headers, BuildAuthHeaders(authentication))

AuthTypes == {"none", "api_key", "bearer_token", "basic_auth", "oauth2"}

Authentications ==
    [ type          : AuthTypes,
      api_key_name  : {None, "X-API-Key", "Authorization"},
      api_key_value : {None, "key"},
      bearer_token  : {None, "", "token"},
      username      : {None, "user"},
      password      : {None, "pass"} ]

HeaderKeys == {"Authorization", "X-API-Key", "Accept"}

EndpointHeaders ==
    UNION { [ ks -> { << "endpoint value" >> } ] : ks \in SUBSET HeaderKeys }

\* an endpoint and an authentication configuration, no request prepared yet
HeadersInit ==
    /\ h_config \in [ headers : EndpointHeaders, authentication : Authentications ]
    /\ h_headers = [ sent |-> FALSE, headers |-> EmptyDict ]

\* make_request, the preparation of the headers it passes to session.request
PrepareHeaders ==
    /\ ~h_headers.sent
    /\ h_headers' = [ sent    |-> TRUE,
                      headers |-> RequestHeaders(h_config.headers,
                                                 h_config.authentication) ]
    /\ UNCHANGED << h_config, clientVars, pathVars, filterVars, recordVars, jobVars, parseVars >>

InitHeaders ==
    /\ HeadersInit
    /\ ClientUnused
    /\ PathUnused
    /\ FilterUnused
    /\ RecordUnused
    /\ JobUnused
    /\ ParseUnused

NextHeaders == PrepareHeaders

SpecHeaders == InitHeaders /\ [][NextHeaders]_vars

\* --------------------------------------------------------- path extraction
\* A string is the sequence of its characters.  A decoded value is a record
\* [kind, text, keys, items]: a scalar (text), a dict (its keys, which are
\* strings, and under items the value of each key) or a list (its items).
Scalar(text) == [ kind |-> "scalar", text |-> text, keys |-> << >>, items |-> << >> ]
Dict(keys, items) == [ kind |-> "dict", text |-> "", keys |-> keys, items |-> items ]
List(items) == [ kind |-> "list", text |-> "", keys |-> << >>, items |-> items ]

\* part in current, and current[part], of a dict
HasKey(current, part) == \E i \in 1..Len(current.keys) : current.keys[i] = part
Lookup(current, part) ==
    current.items[CHOOSE i \in 1..Len(current.keys) : current.keys[i] = part]

\* the characters str.isdigit accepts: the decimal digits and others, such as
\* SUPERSCRIPT TWO, that int() rejects
DecimalDigits == {"0", "1", "2", "3", "4", "5", "6", "7", "8", "9"}
OtherDigits == {"sup2"}

DigitValue(c) ==
    CASE c = "0" -> 0 [] c = "1" -> 1 [] c = "2" -> 2 [] c = "3" -> 3
      [] c = "4" -> 4 [] c = "5" -> 5 [] c = "6" -> 6 [] c = "7" -> 7
      [] c = "8" -> 8 [] c = "9" -> 9

\* str.isdigit
IsDigit(part) ==
    /\ part # << >>
    /\ \A i \in 1..Len(part) : part[i] \in DecimalDigits \cup OtherDigits

\* int(part) raises ValueError
IntRaises(part) == \E i \in 1..Len(part) : part[i] \notin DecimalDigits

\* int(part) of a string of decimal digits
RECURSIVE ParseInt(_)
ParseInt(part) ==
    IF part = << >>
    THEN 0
    ELSE 10 * ParseInt(SubSeq(part, 1, Len(part) - 1)) + DigitValue(part[Len(part)])

\* data_path.startswith("$.")
HasRootPrefix(data_path) ==
    Len(data_path) >= 2 /\ data_path[1] = "$" /\ data_path[2] = "."

\* s.split(".")
RECURSIVE Split(_)
Split(str) ==
    IF \E i \in 1..Len(str) : str[i] = "."
    THEN LET dot == CHOOSE i \in 1..Len(str) :
                       str[i] = "." /\ \A j \in 1..(i - 1) : str[j] # "."
         IN  << SubSeq(str, 1, dot - 1) >> \o Split(SubSeq(str, dot + 1, Len(str)))
    ELSE << str >>

\* one iteration of the loop, indexing lists from one
DescendOneBased(current, part) ==
    IF current.kind = "dict" /\ HasKey(current, part)
    THEN [ st |-> "ok", value |-> Lookup(current, part) ]
    ELSE IF current.kind = "list" /\ IsDigit(part)
    THEN IF IntRaises(part)
         THEN [ st |-> "raise", value |-> current ]
         ELSE IF ParseInt(part) >= 1 /\ ParseInt(part) <= Len(current.items)
              THEN [ st |-> "ok", value |-> current.items[ParseInt(part)] ]
              ELSE [ st |-> "raise", value |-> current ]
    ELSE [ st |-> "miss", value |-> current ]

\* one iteration of the loop over path_parts: the value descended into
\* ("ok"), the else branch ("miss"), or an exception ("raise")
Descend(current, part) ==
    IF current.kind = "dict" /\ HasKey(current, part)
    THEN [ st |-> "ok", value |-> Lookup(current, part) ]
    ELSE IF current.kind = "list" /\ IsDigit(part)
    THEN IF IntRaises(part)
         THEN [ st |-> "raise", value |-> current ]
         ELSE IF ParseInt(part) < Len(current.items)
              THEN [ st |-> "ok", value |-> current.items[ParseInt(part) + 1] ]
              ELSE [ st |-> "raise", value |-> current ]
    ELSE [ st |-> "miss", value |-> current ]

\* the loop over path_parts from the i-th part on
RECURSIVE Walk(_, _, _)
Walk(current, path_parts, i) ==
    IF i > Len(path_parts)
    THEN [ st |-> "ok", value |-> current ]
    ELSE LET step == Descend(current, path_parts[i])
         IN  IF step.st = "ok"
             THEN Walk(step.value, path_parts, i + 1)
             ELSE step

\* _extract_data_path returning the value reached so far when a part misses
ExtractDataPathPartial(data, data_path) ==
    IF HasRootPrefix(data_path)
    THEN LET walked == Walk(data, Split(SubSeq(data_path, 3, Len(data_path))), 1)
         IN  [ raised |-> FALSE, value |-> walked.value ]
    ELSE [ raised |-> FALSE, value |-> data ]

\* ApiClient._extract_data_path: whether it raised, and the value returned
ExtractDataPath(data, data_path) ==
    IF HasRootPrefix(data_path)
    THEN LET walked == Walk(data, Split(SubSeq(data_path, 3, Len(data_path))), 1)
         IN  IF walked.st = "ok"
             THEN [ raised |-> FALSE, value |-> walked.value ]
             ELSE [ raised |-> FALSE, value |-> data ]
    ELSE [ raised |-> FALSE, value |-> data ]

\* the path segments tried, and the texts a path may start with
Segments ==
    { << "a" >>, << "b" >>, << "0" >>, << "1" >>, << "2" >>, << "0", "1" >>,
      << "-", "1" >>, << "sup2" >>, << >> }
Prefixes == { << "$", "." >>, << "$" >>, << >> }

\* ".".join(segs)
RECURSIVE Join(_)
Join(segs) ==
    IF segs = << >>
    THEN << >>
    ELSE IF Len(segs) = 1
    THEN segs[1]
    ELSE segs[1] \o << "." >> \o Join(Tail(segs))

SegmentLists == UNION { [ 1..n -> Segments ] : n \in 0..MaxSegments }

\* The data_path strings tried, each given by the text it starts with and
\* the segments that follow, joined by dots.  "$" followed by an empty
\* segment is left out: it spells a path that starts with "$.".
PathShapes ==
    { sh \in [ prefix : Prefixes, segments : SegmentLists ] :
        ~ ( /\ sh.prefix = << "$" >>
            /\ sh.segments # << >>
            /\ sh.segments[1] = << >> ) }

\* the data_path string of a shape
PathString(sh) == sh.prefix \o Join(sh.segments)

\* the decoded values tried: scalars, dicts and lists of them, and dicts and
\* lists of those
KeyLists == { << >>, << << "a" >> >>, << << "0" >> >>, << << "a" >>, << "0" >> >> }
Leaves == { Scalar("5"), Scalar("x") }
DictsOf(values) ==
    UNION { { Dict(ks, items) : items \in [ 1..Len(ks) -> values ] } : ks \in KeyLists }
ListsOf(values) ==
    { List(<< >>) } \cup { List(<< v >>) : v \in values }
       \cup { List(<< v, w >>) : v \in values, w \in Leaves }
Shallow == Leaves \cup DictsOf(Leaves) \cup ListsOf(Leaves)
Values ==
    Shallow \cup { Dict(<< key >>, << v >>) : key \in { << "a" >>, << "0" >> },
                                               v \in Shallow }
            \cup ListsOf(Shallow)

\* a decoded response and a configured data_path, nothing extracted yet
PathInit ==
    /\ x_input \in [ data : Values, path : PathShapes ]
    /\ x_output = [ done |-> FALSE, raised |-> FALSE, value |-> Scalar("") ]

\* data = self._extract_data_path(data, endpoint.data_path)
Extract ==
    /\ ~x_output.done
    /\ LET out == ExtractDataPath(x_input.data, PathString(x_input.path))
       IN  x_output' = [ done |-> TRUE, raised |-> out.raised, value |-> out.value ]
    /\ UNCHANGED << x_input, clientVars, headerVars, filterVars, recordVars, jobVars, parseVars >>

InitPath ==
    /\ PathInit
    /\ ClientUnused
    /\ HeadersUnused
    /\ FilterUnused
    /\ RecordUnused
    /\ JobUnused
    /\ ParseUnused

NextPath == Extract

SpecPath == InitPath /\ [][NextPath]_vars

\* ------------------------------------------------------------ field filters
\* A field value is a record [kind, text, num]: a str (text, the sequence of
\* its characters), an int (num), a bool (num is 1 for True) or None.
Str(text) == [ kind |-> "str", text |-> text, num |-> 0 ]
Num(n) == [ kind |-> "int", text |-> << >>, num |-> n ]
Bool(b) == [ kind |-> "bool", text |-> << >>, num |-> IF b THEN 1 ELSE 0 ]
NoneValue == [ kind |-> "none", text |-> << >>, num |-> 0 ]

\* isinstance(value, str), isinstance(value, (int, float)): bool is an int
IsStr(value) == value.kind = "str"
IsNumber(value) == value.kind \in {"int", "bool"}

\* A configuration dict is the sequence of its entries in the order they
\* were written; an entry is a record [key, text, flag, num] of which the
\* field that fits the key is used.
TextEntry(key, text) == [ key |-> key, text |-> text, flag |-> FALSE, num |-> 0 ]
FlagEntry(key, flag) == [ key |-> key, text |-> "", flag |-> flag, num |-> 0 ]
NumEntry(key, num) == [ key |-> key, text |-> "", flag |-> FALSE, num |-> num ]
ConfigDict(entries) == [ dict |-> TRUE, entries |-> entries ]
NotADict == [ dict |-> FALSE, entries |-> << >> ]

\* key in config, and config[key]
Has(config, key) == \E i \in 1..Len(config.entries) : config.entries[i].key = key
Get(config, key) ==
    config.entries[CHOOSE i \in 1..Len(config.entries) : config.entries[i].key = key]

\* key in config and config[key]
FlagSet(config, key) == Has(config, key) /\ Get(config, key).flag

\* the characters tried: a blank, and one letter in upper and in lower case
Chars == {" ", "J", "j"}
LowerChar(c) == IF c = "J" THEN "j" ELSE c
UpperChar(c) == IF c = "j" THEN "J" ELSE c

\* str.lower, str.upper
Lower(text) == [ i \in 1..Len(text) |-> LowerChar(text[i]) ]
Upper(text) == [ i \in 1..Len(text) |-> UpperChar(text[i]) ]

\* str.strip
RECURSIVE Strip(_)
Strip(text) ==
    IF text = << >>
    THEN text
    ELSE IF Head(text) = " "
    THEN Strip(Tail(text))
    ELSE IF text[Len(text)] = " "
    THEN Strip(SubSeq(text, 1, Len(text) - 1))
    ELSE text

\* the date branch of _apply_filter: datetime.fromisoformat raises
\* ValueError on every text over Chars, and the except clause leaves the
\* value as it is
DateOps(value) == value

\* the string branch, taking the operations in the order the configuration
\* lists them
RECURSIVE StringOpsInConfigOrder(_, _, _)
StringOpsInConfigOrder(text, entries, i) ==
    IF i > Len(entries)
    THEN text
    ELSE LET e == entries[i]
             next == IF e.key = "lowercase" /\ e.flag THEN Lower(text)
                     ELSE IF e.key = "uppercase" /\ e.flag THEN Upper(text)
                     ELSE IF e.key = "strip" /\ e.flag THEN Strip(text)
                     ELSE text
         IN  StringOpsInConfigOrder(next, entries, i + 1)

\* the string branch of _apply_filter
StringOps(text, config) ==
    LET lowered  == IF FlagSet(config, "lowercase") THEN Lower(text) ELSE text
        uppered  == IF FlagSet(config, "uppercase") THEN Upper(lowered) ELSE lowered
        stripped == IF FlagSet(config, "strip") THEN Strip(uppered) ELSE uppered
    IN  stripped

\* the number branch, dropping a value outside the bounds
NumberOpsRejecting(value, config) ==
    IF \/ Has(config, "min") /\ value.num < Get(config, "min").num
       \/ Has(config, "max") /\ value.num > Get(config, "max").num
    THEN NoneValue
    ELSE value

\* the number branch of _apply_filter
NumberOps(value, config) ==
    LET raised == IF Has(config, "min") /\ value.num < Get(config, "min").num
                  THEN Num(Get(config, "min").num)
                  ELSE value
        capped == IF Has(config, "max") /\ raised.num > Get(config, "max").num
                  THEN Num(Get(config, "max").num)
                  ELSE raised
    IN  capped

\* _apply_filter listing the string operations in configuration order
ApplyFilterInConfigOrder(value, filter_config) ==
    IF filter_config.dict /\ Has(filter_config, "type")
    THEN LET filter_type == Get(filter_config, "type").text
         IN  IF filter_type = "string" /\ IsStr(value)
             THEN Str(StringOpsInConfigOrder(value.text, filter_config.entries, 1))
             ELSE IF filter_type = "number" /\ IsNumber(value)
             THEN NumberOps(value, filter_config)
             ELSE value
    ELSE value

\* _apply_filter dropping, not clamping, numbers outside the bounds
ApplyFilterRejecting(value, filter_config) ==
    IF filter_config.dict /\ Has(filter_config, "type")
    THEN LET filter_type == Get(filter_config, "type").text
         IN  IF filter_type = "string" /\ IsStr(value)
             THEN Str(StringOps(value.text, filter_config))
             ELSE IF filter_type = "number" /\ IsNumber(value)
             THEN NumberOpsRejecting(value, filter_config)
             ELSE value
    ELSE value

\* DataProcessor._apply_filter
ApplyFilter(value, filter_config) ==
    IF filter_config.dict /\ Has(filter_config, "type")
    THEN LET filter_type == Get(filter_config, "type").text
         IN  IF filter_type = "string" /\ IsStr(value)
             THEN Str(StringOps(value.text, filter_config))
             ELSE IF filter_type = "number" /\ IsNumber(value)
             THEN NumberOps(value, filter_config)
             ELSE IF filter_type = "date" /\ IsStr(value)
             THEN DateOps(value)
             ELSE value
    ELSE value

\* the texts, numbers and field values tried
Texts == UNION { [ 1..n -> Chars ] : n \in 0..MaxLen }
Numbers == (0 - 1)..(MaxBound + 1)
FieldValues ==
    { Str(t) : t \in Texts } \cup { Num(n) : n \in Numbers }
       \cup { Bool(TRUE), Bool(FALSE), NoneValue }

\* the orders in which the entries of a set can be written
Orders(entries) ==
    { seq \in [ 1..Cardinality(entries) -> entries ] :
        \A i, j \in 1..Cardinality(entries) : i # j => seq[i] # seq[j] }

\* sets of entries with different keys
DistinctKeys(entries) == \A e1, e2 \in entries : e1.key = e2.key => e1 = e2

\* the entries a filter configuration may hold besides its type
StringFlags ==
    { FlagEntry(key, flag) : key \in {"lowercase", "uppercase", "strip"},
                             flag \in BOOLEAN }
NumberBounds == { NumEntry(key, n) : key \in {"min", "max"}, n \in 0..MaxBound }
FilterEntrySets ==
    { es \in (SUBSET StringFlags) \cup (SUBSET NumberBounds) : DistinctKeys(es) }
FilterTypes == {"string", "number", "date"}

\* the filter configurations tried: dicts with and without a type, and a
\* configuration that is not a dict
FilterConfigs ==
    { NotADict }
       \cup UNION { { ConfigDict(seq) : seq \in Orders(es) } : es \in FilterEntrySets }
       \cup UNION { { ConfigDict(seq) : seq \in Orders(es \cup { TextEntry("type", t) }) } :
                       es \in FilterEntrySets, t \in FilterTypes }

\* a value and a filter configuration, nothing filtered yet
FilterInit ==
    /\ f_input \in [ value : FieldValues, config : FilterConfigs ]
    /\ f_output = [ done |-> FALSE, value |-> NoneValue ]

\* DataProcessor._apply_filter(value, filter_config)
Filter ==
    /\ ~f_output.done
    /\ f_output' = [ done |-> TRUE, value |-> ApplyFilter(f_input.value, f_input.config) ]
    /\ UNCHANGED << f_input, clientVars, headerVars, pathVars, recordVars, jobVars, parseVars >>

InitFilter ==
    /\ FilterInit
    /\ ClientUnused
    /\ HeadersUnused
    /\ PathUnused
    /\ RecordUnused
    /\ JobUnused
    /\ ParseUnused

NextFilter == Filter

SpecFilter == InitFilter /\ [][NextFilter]_vars

\* ---------------------------------------------------- record transformation
\* A record is [dict, fields]: whether it is a dict, and its fields as a
\* function from field names to field values.
Record(fields) == [ dict |-> TRUE, fields |-> fields ]
NotARecord == [ dict |-> FALSE, fields |-> EmptyDict ]

\* d[key] = value
DictSet(d, key, value) ==
    [ k \in (DOMAIN d) \cup {key} |-> IF k = key THEN value ELSE d[k] ]

\* re.match(pattern, text) for the one pattern tried, "j": the text starts
\* with a lower-case j
ReMatch(pattern, text) == text # << >> /\ text[1] = pattern

\* DataProcessor._validate_field
ValidateField(value, validation_config) ==
    IF ~validation_config.dict
    THEN TRUE
    ELSE IF /\ FlagSet(validation_config, "required")
            /\ (value = NoneValue \/ value = Str(<< >>))
    THEN FALSE
    ELSE IF /\ Has(validation_config, "type")
            /\ LET expected_type == Get(validation_config, "type").text
               IN  \/ expected_type = "string" /\ ~IsStr(value)
                   \/ expected_type = "number" /\ ~IsNumber(value)
                   \/ expected_type = "boolean" /\ value.kind # "bool"
    THEN FALSE
    ELSE IF /\ Has(validation_config, "pattern")
            /\ IsStr(value)
            /\ ~ReMatch(Get(validation_config, "pattern").text, value.text)
    THEN FALSE
    ELSE IF /\ Has(validation_config, "min_length")
            /\ IsStr(value)
            /\ Len(value.text) < Get(validation_config, "min_length").num
    THEN FALSE
    ELSE IF /\ Has(validation_config, "max_length")
            /\ IsStr(value)
            /\ Len(value.text) > Get(validation_config, "max_length").num
    THEN FALSE
    ELSE TRUE

\* the mapping loop of _transform_record from the i-th entry of
\* field_mapping on
RECURSIVE ApplyMapping(_, _, _, _)
ApplyMapping(transformed, record, field_mapping, i) ==
    IF i > Len(field_mapping)
    THEN transformed
    ELSE LET source_field == field_mapping[i].source
             target_field == field_mapping[i].target
         IN  IF source_field \in DOMAIN record.fields
             THEN ApplyMapping(DictSet(transformed, target_field,
                                       record.fields[source_field]),
                               record, field_mapping, i + 1)
             ELSE ApplyMapping(transformed, record, field_mapping, i + 1)

\* the filter loop of _transform_record
ApplyFilters(transformed, field_filters) ==
    [ field \in DOMAIN transformed |->
        IF field \in DOMAIN field_filters
        THEN ApplyFilter(transformed[field], field_filters[field])
        ELSE transformed[field] ]

\* the validation loop, removing a field that fails
ApplyValidationRemoving(transformed, data_validation) ==
    [ field \in { f \in DOMAIN transformed :
                    ~ ( /\ f \in DOMAIN data_validation
                        /\ ~ValidateField(transformed[f], data_validation[f]) ) }
        |-> transformed[field] ]

\* the validation loop of _transform_record
ApplyValidation(transformed, data_validation) ==
    [ field \in DOMAIN transformed |->
        IF /\ field \in DOMAIN data_validation
           /\ ~ValidateField(transformed[field], data_validation[field])
        THEN NoneValue
        ELSE transformed[field] ]

\* the mapping loop creating a key, holding None, for a missing source
RECURSIVE ApplyMappingWithNulls(_, _, _, _)
ApplyMappingWithNulls(transformed, record, field_mapping, i) ==
    IF i > Len(field_mapping)
    THEN transformed
    ELSE LET source_field == field_mapping[i].source
             target_field == field_mapping[i].target
         IN  ApplyMappingWithNulls(
                 DictSet(transformed, target_field,
                         IF source_field \in DOMAIN record.fields
                         THEN record.fields[source_field]
                         ELSE NoneValue),
                 record, field_mapping, i + 1)

\* _transform_record with the mapping loop that fills in None
TransformRecordWithNulls(record, field_mapping, field_filters, data_validation) ==
    IF ~record.dict
    THEN record
    ELSE Record(ApplyValidation(
                    ApplyFilters(ApplyMappingWithNulls(EmptyDict, record, field_mapping, 1),
                                 field_filters),
                    data_validation))

\* _transform_record with the validation loop that removes the field
TransformRecordRemoving(record, field_mapping, field_filters, data_validation) ==
    IF ~record.dict
    THEN record
    ELSE Record(ApplyValidationRemoving(
                    ApplyFilters(ApplyMapping(EmptyDict, record, field_mapping, 1),
                                 field_filters),
                    data_validation))

\* the validation loop run over every configured field, present or not
ApplyValidationEveryField(transformed, data_validation) ==
    [ field \in (DOMAIN transformed) \cup (DOMAIN data_validation) |->
        IF field \in DOMAIN transformed
        THEN IF /\ field \in DOMAIN data_validation
                /\ ~ValidateField(transformed[field], data_validation[field])
             THEN NoneValue
             ELSE transformed[field]
        ELSE NoneValue ]

\* _transform_record validating fields the record does not have
TransformRecordEveryField(record, field_mapping, field_filters, data_validation) ==
    IF ~record.dict
    THEN record
    ELSE Record(ApplyValidationEveryField(
                    ApplyFilters(ApplyMapping(EmptyDict, record, field_mapping, 1),
                                 field_filters),
                    data_validation))

\* DataProcessor._transform_record
TransformRecord(record, field_mapping, field_filters, data_validation) ==
    IF ~record.dict
    THEN record
    ELSE Record(ApplyValidation(
                    ApplyFilters(ApplyMapping(EmptyDict, record, field_mapping, 1),
                                 field_filters),
                    data_validation))

\* DataProcessor.transform_data: data is [list, items], a list of records
\* or, under items[1], a single record
TransformData(data, field_mapping, field_filters, data_validation) ==
    [ list  |-> data.list,
      items |-> [ i \in 1..Len(data.items) |->
                    TransformRecord(data.items[i], field_mapping,
                                    field_filters, data_validation) ] ]

\* the field names and values of the records tried
SourceFields == {"id", "name"}
TargetFields == {"user_id", "user_name"}
RecordValues == { Str(<< >>), Str(<< " ", "J" >>), Num(0 - 1), NoneValue }
Records ==
    { NotARecord }
       \cup UNION { { Record(f) : f \in [ present -> RecordValues ] } :
                       present \in SUBSET SourceFields }

\* the data tried: a single record, an empty list, and a list of a record
\* followed by a second one
SecondRecord == Record([ f \in SourceFields |-> Num(0 - 1) ])
Data ==
    { [ list |-> FALSE, items |-> << r >> ] : r \in Records }
       \cup { [ list |-> TRUE, items |-> << >> ] }
       \cup { [ list |-> TRUE, items |-> << r, SecondRecord >> ] : r \in Records }

\* the field mappings tried, in the order their entries are written; two
\* sources may share a target
MappingEntries == [ source : SourceFields, target : TargetFields ]
FieldMappings ==
    UNION { Orders(es) : es \in { s \in SUBSET MappingEntries :
                                     \A e1, e2 \in s : e1.source = e2.source => e1 = e2 } }

\* the filter configurations tried on a field of a record
RecordFilterConfigs ==
    { ConfigDict(<< TextEntry("type", "string"), FlagEntry("lowercase", TRUE),
                    FlagEntry("strip", TRUE) >>),
      ConfigDict(<< TextEntry("type", "number"), NumEntry("min", 0),
                    NumEntry("max", MaxBound) >>) }

\* the validation configurations tried on a field of a record
ValidationConfigs ==
    { ConfigDict(<< FlagEntry("required", TRUE) >>),
      ConfigDict(<< FlagEntry("required", TRUE), TextEntry("type", "string") >>),
      ConfigDict(<< TextEntry("type", "number"), NumEntry("min", 0) >>),
      ConfigDict(<< TextEntry("type", "boolean") >>),
      ConfigDict(<< TextEntry("pattern", "j") >>),
      ConfigDict(<< NumEntry("min_length", 1), NumEntry("max_length", 1) >>) }

\* dicts from some of the target fields to the configurations
ConfigsByField(configs) ==
    UNION { [ fields -> configs ] : fields \in SUBSET TargetFields }

\* scraped data and the transformation configuration, nothing transformed
RecordInit ==
    /\ t_input \in [ data            : Data,
                     field_mapping   : FieldMappings,
                     field_filters   : ConfigsByField(RecordFilterConfigs),
                     data_validation : ConfigsByField(ValidationConfigs) ]
    /\ t_output = [ done |-> FALSE, raised |-> FALSE,
                    data |-> [ list |-> TRUE, items |-> << >> ] ]

\* DataProcessor.transform_data(data, field_mapping, field_filters,
\* data_validation)
Transform ==
    /\ ~t_output.done
    /\ t_output' = [ done   |-> TRUE,
                     raised |-> FALSE,
                     data   |-> TransformData(t_input.data, t_input.field_mapping,
                                              t_input.field_filters,
                                              t_input.data_validation) ]
    /\ UNCHANGED << t_input, clientVars, headerVars, pathVars, filterVars, jobVars, parseVars >>

InitRecord ==
    /\ RecordInit
    /\ ClientUnused
    /\ HeadersUnused
    /\ PathUnused
    /\ FilterUnused
    /\ JobUnused
    /\ ParseUnused

NextRecord == Transform

SpecRecord == InitRecord /\ [][NextRecord]_vars

\* -------------------------------------------------------------- scraping job
\* What a fetch hands to the job loop is abstracted to [kind, n]: a list of
\* n records, a dict of n keys, an XML element with n children, or None.
Payload(kind, n) == [ raises |-> "none", kind |-> kind, n |-> n ]
FetchError(name) == [ raises |-> name, kind |-> "none", n |-> 0 ]

\* `if data:` - an empty list or dict, an element without children and None
\* are false
DataTruthy(data) == data.kind # "none" /\ data.n > 0

\* len(data) if isinstance(data, list) else 1
RecordCount(data) == IF data.kind = "list" THEN data.n ELSE 1

\* json.dumps(data) raises TypeError: an XML element is not serialisable
DumpsRaises(data) == data.kind = "element"

\* every exception an endpoint fetch raises is skipped
SkippedAny(raised) == raised # "none"

\* the except clauses of the loop body: the errors that skip the endpoint
Skipped(raised) == raised \in {"RateLimitExceededError", "ApiClientError"}

\* what make_request can do for an endpoint: return data, or raise one of
\* its own errors or another exception (ValueError of _check_rate_limit)
FetchOutcomes ==
    { Payload("list", n) : n \in 0..MaxRecords }
       \cup { Payload("dict", 1), Payload("element", 1), Payload("none", 0) }
       \cup { FetchError(e) : e \in {"RateLimitExceededError", "ApiClientError",
                                     "ValueError"} }

\* the endpoint names of a configuration: at least one endpoint, and
\* nothing keeps two endpoints from sharing a name
EndpointNames == {"users", "posts"}
EndpointLists == UNION { [ 1..n -> EndpointNames ] : n \in 1..MaxEndpoints }

\* no ScrapingResult
NoResult ==
    [ set |-> FALSE, status |-> "", endpoints_scraped |-> 0,
      records_processed |-> 0, scraped_endpoints |-> << >> ]

\* scraped_data kept as a list: every stored endpoint adds an entry
StoreEvery(data, name) == Append(data, name)

\* scraped_data[name] = ...: a dict keeps the position of a key it has
Store(data, name) ==
    IF \E i \in 1..Len(data) : data[i] = name THEN data ELSE Append(data, name)

\* DataScraperAgent.__init__, and the configuration execute_scraping_job
\* will load
JobInit ==
    /\ j_endpoints \in EndpointLists
    /\ j_pc = "start"
    /\ j_session = "none"
    /\ j_fetched = << >>
    /\ j_outcomes = << >>
    /\ endpoints_scraped = 0
    /\ records_processed = 0
    /\ scraped_data = << >>
    /\ scraping_result = NoResult
    /\ j_raised = "none"

\* execute_scraping_job raising DataScraperAgentError
JobFails ==
    /\ j_pc' = "done"
    /\ j_raised' = "DataScraperAgentError"

\* phase 1, _load_configuration: the configuration loads, or the loader
\* raises
load_configuration ==
    /\ j_pc = "start"
    /\ \/ /\ j_pc' = "loaded"
          /\ UNCHANGED j_raised
       \/ JobFails
    /\ UNCHANGED << j_endpoints, j_session, j_fetched, j_outcomes,
                    endpoints_scraped, records_processed, scraped_data,
                    scraping_result >>
    /\ UNCHANGED << clientVars, headerVars, pathVars, filterVars, recordVars,
                    parseVars >>

\* phase 2, _initialize_components, and the head of _execute_scraping_phase
\* up to `async with self.api_client`
initialize_components ==
    /\ j_pc = "loaded"
    /\ j_pc' = "loop"
    /\ j_session' = "open"
    /\ endpoints_scraped' = 0
    /\ records_processed' = 0
    /\ scraped_data' = << >>
    /\ UNCHANGED << j_endpoints, j_fetched, j_outcomes, scraping_result, j_raised >>
    /\ UNCHANGED << clientVars, headerVars, pathVars, filterVars, recordVars,
                    parseVars >>

\* one iteration of `for endpoint in self.current_config.endpoints`
scrape_endpoint ==
    /\ j_pc = "loop"
    /\ Len(j_fetched) < Len(j_endpoints)
    /\ LET index == Len(j_fetched) + 1
           name  == j_endpoints[index]
       IN  \E outcome \in FetchOutcomes :
             /\ j_fetched' = Append(j_fetched, index)
             /\ j_outcomes' = Append(j_outcomes, outcome)
             /\ IF outcome.raises # "none"
                THEN IF Skipped(outcome.raises)
                     THEN UNCHANGED << j_pc, j_session, j_raised, endpoints_scraped,
                                       records_processed, scraped_data >>
                     ELSE /\ JobFails
                          /\ j_session' = "closed"
                          /\ UNCHANGED << endpoints_scraped, records_processed,
                                          scraped_data >>
                ELSE IF ~DataTruthy(outcome)
                THEN /\ endpoints_scraped' = endpoints_scraped + 1
                     /\ UNCHANGED << j_pc, j_session, j_raised, records_processed,
                                     scraped_data >>
                ELSE IF DumpsRaises(outcome)
                THEN /\ JobFails
                     /\ j_session' = "closed"
                     /\ records_processed' = records_processed + RecordCount(outcome)
                     /\ UNCHANGED << endpoints_scraped, scraped_data >>
                ELSE /\ records_processed' = records_processed + RecordCount(outcome)
                     /\ scraped_data' = Store(scraped_data, name)
                     /\ endpoints_scraped' = endpoints_scraped + 1
                     /\ UNCHANGED << j_pc, j_session, j_raised >>
    /\ UNCHANGED << j_endpoints, scraping_result >>
    /\ UNCHANGED << clientVars, headerVars, pathVars, filterVars, recordVars,
                    parseVars >>

\* the end of the loop: the client is left and the ScrapingResult is built
finish_scraping ==
    /\ j_pc = "loop"
    /\ Len(j_fetched) = Len(j_endpoints)
    /\ j_session' = "closed"
    /\ scraping_result' =
          [ set |-> TRUE, status |-> "completed",
            endpoints_scraped |-> endpoints_scraped,
            records_processed |-> records_processed,
            scraped_endpoints |-> scraped_data ]
    /\ j_pc' = "output"
    /\ UNCHANGED << j_endpoints, j_fetched, j_outcomes, endpoints_scraped,
                    records_processed, scraped_data, j_raised >>
    /\ UNCHANGED << clientVars, headerVars, pathVars, filterVars, recordVars,
                    parseVars >>

\* phase 4, _execute_output_phase: the file is written and the result
\* returned, or writing raises
output_phase ==
    /\ j_pc = "output"
    /\ \/ /\ j_pc' = "done"
          /\ UNCHANGED j_raised
       \/ JobFails
    /\ UNCHANGED << j_endpoints, j_session, j_fetched, j_outcomes,
                    endpoints_scraped, records_processed, scraped_data,
                    scraping_result >>
    /\ UNCHANGED << clientVars, headerVars, pathVars, filterVars, recordVars,
                    parseVars >>

InitJob ==
    /\ JobInit
    /\ ClientUnused
    /\ HeadersUnused
    /\ PathUnused
    /\ FilterUnused
    /\ RecordUnused
    /\ ParseUnused

NextJob ==
    \/ load_configuration
    \/ initialize_components
    \/ scrape_endpoint
    \/ finish_scraping
    \/ output_phase

SpecJob == InitJob /\ [][NextJob]_vars

\* --------------------------------------------------------- response parsing
\* A content type is the sequence of the parts it is written with; `needle
\* in content_type` looks for a part spelled exactly like the needle.
In(needle, content_type) ==
    \E i \in 1..Len(content_type) : content_type[i] = needle

\* the parts the content types tried are written with
ContentTypeParts ==
    { "application/json", "Application/JSON", "application/xml",
      "APPLICATION/XML", "text/xml", "Text/Xml", "text/csv", "text/plain",
      "; charset=utf-8" }
ContentTypes == UNION { [ 1..n -> ContentTypeParts ] : n \in 0..MaxParts }

\* what the body of the response is: a JSON document, an XML document, or
\* text that is neither
Bodies == {"json", "xml", "text"}

\* response.json(): the decoded tree, or ValueError on a body that is not
\* JSON
JsonDecode(body) ==
    IF body = "json"
    THEN [ decoder |-> "json", raised |-> "none", value |-> "json tree" ]
    ELSE [ decoder |-> "json", raised |-> "ValueError", value |-> "" ]

\* ET.fromstring(text): the element tree, or ParseError on a body that is
\* not XML
XmlDecode(body) ==
    IF body = "xml"
    THEN [ decoder |-> "xml", raised |-> "none", value |-> "xml tree" ]
    ELSE [ decoder |-> "xml", raised |-> "ParseError", value |-> "" ]

\* response.text()
TextDecode(body) == [ decoder |-> "text", raised |-> "none", value |-> body ]

\* ApiClient._parse_response
ParseResponse(content_type, body) ==
    IF In("application/json", content_type)
    THEN JsonDecode(body)
    ELSE IF In("application/xml", content_type) \/ In("text/xml", content_type)
    THEN XmlDecode(body)
    ELSE IF In("text/csv", content_type)
    THEN TextDecode(body)
    ELSE TextDecode(body)

\* a response with its content-type header and body, nothing parsed yet
ParseInit ==
    /\ p_input \in [ content_type : ContentTypes, body : Bodies ]
    /\ p_output = [ done |-> FALSE, decoder |-> "", raised |-> "none", value |-> "" ]

\* data = await self._parse_response(response, content_type)
Parse ==
    /\ ~p_output.done
    /\ LET out == ParseResponse(p_input.content_type, p_input.body)
       IN  p_output' = [ done |-> TRUE, decoder |-> out.decoder,
                         raised |-> out.raised, value |-> out.value ]
    /\ UNCHANGED << p_input, clientVars, headerVars, pathVars, filterVars,
                    recordVars, jobVars >>

InitParse ==
    /\ ParseInit
    /\ ClientUnused
    /\ HeadersUnused
    /\ PathUnused
    /\ FilterUnused
    /\ RecordUnused
    /\ JobUnused

NextParse == Parse

SpecParse == InitParse /\ [][NextParse]_vars

\* ------------------------------------------------------------------ claims
\* the script fails transiently k times and then answers below 400
FailsThenAnswers(scr, k) ==
    /\ Len(scr) > k
    /\ \A i \in 1..k : scr[i] = ClientError
    /\ scr[k + 1].raises = "none"
    /\ scr[k + 1].status < ErrorStatus

\* every answer of the script is a transient transport error
AlwaysFails(scr) ==
    /\ scr # << >>
    /\ \A i \in 1..Len(scr) : scr[i] = ClientError

\* entries of `times` younger than `window` at `current_time`
Fresh(times, current_time, window) ==
    Cardinality({ i \in 1..Len(times) : current_time - times[i] < window })

\* the step is the admission check of a make_request call
AdmissionStep == pc = "idle" /\ pc' # "idle"

\* C1: when the transport fails transiently on the first k <= retry_attempts
\* attempts and then answers with a status below 400 (and a body that can be
\* read and decoded), make_request returns the successful outcome after
\* exactly k+1 calls to the transport.
C1_RetryThenSucceed ==
    (pc = "done" /\ session = "open" /\ body_read \in {"none", "ok"}) =>
        \A k \in 0..endpoint.retry_attempts :
            FailsThenAnswers(script, k) => (result = "ok" /\ calls = k + 1)

\* C2: when every attempt fails transiently, make_request raises
\* ApiClientError after exactly retry_attempts + 1 calls to the transport.
C2_ExhaustsAllAttempts ==
    (pc = "done" /\ session = "open" /\ AlwaysFails(script)) =>
        (result = "ApiClientError" /\ calls = endpoint.retry_attempts + 1)

C4_RetryAfter500 ==
    ( /\ pc = "done"
      /\ session = "open"
      /\ endpoint.retry_attempts >= 1
      /\ Len(script) >= 2
      /\ script[1] = Answer(500)
      /\ script[2] = Answer(200)
      /\ body_read = "ok" ) =>
        (result = "ok" /\ response_status = 200 /\ calls = 2)

\* C5: starting from an empty log, the (requests_per_minute + 1)-th call to
\* make_request made within 60 seconds is rejected with
\* RateLimitExceededError.
C5_BurstRejected ==
    ( /\ pc = "done"
      /\ nreq = rate_limit.requests_per_minute + 1
      /\ now < MinuteWindow ) =>
        result = "RateLimitExceededError"

\* C6: whenever the log holds at least requests_per_hour entries at the
\* admission check, the call raises RateLimitExceededError.
C6_HourlyLimitRejects ==
    [][ ( /\ AdmissionStep
          /\ Len(Prune(request_times, now)) >= rate_limit.requests_per_hour )
        => result' = "RateLimitExceededError" ]_vars

C8_RejectHasNoEffect ==
    [][ (result' = "RateLimitExceededError" /\ result # result') =>
          /\ AdmissionStep
          /\ pc' = "done"
          /\ calls' = 0
          /\ waits' = << >>
          /\ paced' = 0
          /\ now' = now
          /\ request_times' = Prune(request_times, now)
          /\ Len(request_times') <= Len(request_times) ]_vars

\* C8 witness: a rejected call, with entries in the log
C8_Witness ==
    /\ pc = "done"
    /\ result = "RateLimitExceededError"
    /\ request_times # << >>
    /\ rate_limit.delay_between_requests > 0

\* the keys declared on the endpoint that the authentication also yields
ConflictKeys ==
    (DOMAIN h_config.headers) \cap (DOMAIN BuildAuthHeaders(h_config.authentication))

\* C9 as claimed: on a key conflict between an auth-derived header and an
\* endpoint-declared header, the request carries the endpoint's value.
C9_EndpointHeaderWins ==
    h_headers.sent =>
        \A k \in ConflictKeys : h_headers.headers[k] = h_config.headers[k]

\* C9 as amended: on a key conflict the request carries the auth-derived
\* value; endpoint headers whose key the authentication does not yield are
\* sent as declared.
C9_AuthHeaderWins ==
    h_headers.sent =>
        /\ DOMAIN h_headers.headers =
              (DOMAIN h_config.headers)
                 \cup (DOMAIN BuildAuthHeaders(h_config.authentication))
        /\ \A k \in ConflictKeys :
              /\ h_headers.headers[k] = BuildAuthHeaders(h_config.authentication)[k]
              /\ h_headers.headers[k] # h_config.headers[k]
        /\ \A k \in (DOMAIN h_config.headers) \ ConflictKeys :
              h_headers.headers[k] = h_config.headers[k]

\* C9 witness: a bearer token sent although the endpoint declares its own
\* Authorization header
C9_Witness ==
    /\ h_headers.sent
    /\ h_config.authentication.type = "bearer_token"
    /\ "Authorization" \in DOMAIN h_config.headers
    /\ h_headers.headers["Authorization"] = << "Bearer ", "token" >>

\* the segment is a non-negative integer written in decimal digits
IsIndex(seg) == seg # << >> /\ \A i \in 1..Len(seg) : seg[i] \in DecimalDigits

\* descending from `value` through the segments from the i-th on resolves
\* each of them: a key of the current map, or an in-range index of the
\* current list
RECURSIVE Resolves(_, _, _)
Resolves(value, segs, i) ==
    IF i > Len(segs)
    THEN TRUE
    ELSE IF value.kind = "dict"
    THEN \E k \in 1..Len(value.keys) :
            value.keys[k] = segs[i] /\ Resolves(value.items[k], segs, i + 1)
    ELSE IF value.kind = "list"
    THEN /\ IsIndex(segs[i])
         /\ ParseInt(segs[i]) < Len(value.items)
         /\ Resolves(value.items[ParseInt(segs[i]) + 1], segs, i + 1)
    ELSE FALSE

\* the path of the input is "$.s1...sn" for segments s1..sn that resolve
\* fully in its data
FullyResolves ==
    /\ x_input.path.prefix = << "$", "." >>
    /\ x_input.path.segments # << >>
    /\ Resolves(x_input.data, x_input.path.segments, 1)

\* C10: _extract_data_path fails open: it never raises, and for a path that
\* does not start with "$." or cannot be fully resolved it returns the
\* original value, never a partially navigated one.
C10_ExtractFailsOpen ==
    x_output.done =>
        /\ ~x_output.raised
        /\ ~FullyResolves => x_output.value = x_input.data

\* C10 witness: the first segment resolves, the second does not, and the
\* original value comes back
C10_Witness ==
    /\ x_output.done
    /\ x_input.path.prefix = << "$", "." >>
    /\ Len(x_input.path.segments) = 2
    /\ Resolves(x_input.data, << x_input.path.segments[1] >>, 1)
    /\ ~FullyResolves
    /\ x_output.value = x_input.data

\* the value reached from `value` by descending through the segments from
\* the i-th on, each of which resolves
RECURSIVE Reached(_, _, _)
Reached(value, segs, i) ==
    IF i > Len(segs)
    THEN value
    ELSE IF value.kind = "dict"
    THEN Reached(value.items[CHOOSE k \in 1..Len(value.keys) : value.keys[k] = segs[i]],
                 segs, i + 1)
    ELSE Reached(value.items[ParseInt(segs[i]) + 1], segs, i + 1)

\* C11: for a path "$.s1.s2...sn" in which every segment resolves (a key of
\* the current map, or a non-negative in-range index of the current list),
\* _extract_data_path returns exactly the value reached by descending
\* through s1..sn in order.
C11_ExtractReachesValue ==
    (x_output.done /\ FullyResolves) =>
        /\ ~x_output.raised
        /\ x_output.value = Reached(x_input.data, x_input.path.segments, 1)

\* C11 witness: a list index and then a key, down to a scalar ("$.0.a")
C11_Witness ==
    /\ x_output.done
    /\ FullyResolves
    /\ x_input.data.kind = "list"
    /\ x_input.path.segments = << << "0" >>, << "a" >> >>
    /\ x_output.value = Scalar("5")

\* the text after the operations whose flag is set, taken in the order
\* lowercase, uppercase, strip
FixedOrder(text, flags) ==
    LET t1 == IF "lowercase" \in flags THEN Lower(text) ELSE text
        t2 == IF "uppercase" \in flags THEN Upper(t1) ELSE t1
    IN  IF "strip" \in flags THEN Strip(t2) ELSE t2

\* the flags set in a configuration, in whatever order they are written
FlagsSet(config) ==
    { config.entries[i].key : i \in { j \in 1..Len(config.entries) :
                                         /\ config.entries[j].flag
                                         /\ config.entries[j].key
                                               \in {"lowercase", "uppercase", "strip"} } }

\* the filter is a string filter applied to a string
StringFilterCase ==
    /\ f_input.config.dict
    /\ Has(f_input.config, "type")
    /\ Get(f_input.config, "type").text = "string"
    /\ IsStr(f_input.value)

\* C13: a string filter applies lowercase, then uppercase, then strip, each
\* only if its flag is set; the result does not depend on the order in
\* which the flags are written in the configuration.
C13_StringFilterFixedOrder ==
    (f_output.done /\ StringFilterCase) =>
        f_output.value = Str(FixedOrder(f_input.value.text, FlagsSet(f_input.config)))

\* C13 witness: strip written before lowercase, applied to " J ", gives "j"
C13_Witness ==
    /\ f_output.done
    /\ StringFilterCase
    /\ f_input.value = Str(<< " ", "J", " " >>)
    /\ f_input.config.entries =
          << FlagEntry("strip", TRUE), TextEntry("type", "string"),
             FlagEntry("lowercase", TRUE) >>
    /\ f_output.value = Str(<< "j" >>)

\* the filter is a number filter with min <= max applied to a number
NumberFilterCase ==
    /\ f_input.config.dict
    /\ Has(f_input.config, "type")
    /\ Get(f_input.config, "type").text = "number"
    /\ Has(f_input.config, "min")
    /\ Has(f_input.config, "max")
    /\ Get(f_input.config, "min").num <= Get(f_input.config, "max").num
    /\ f_input.value.kind = "int"

\* C14: a number filter with bounds min <= max clamps: a value below min
\* becomes min, a value above max becomes max, a value inside [min, max] is
\* returned unchanged, so the result always lies in [min, max].
C14_NumberFilterClamps ==
    (f_output.done /\ NumberFilterCase) =>
        LET lo == Get(f_input.config, "min").num
            hi == Get(f_input.config, "max").num
            v  == f_input.value.num
        IN  /\ f_output.value.kind = "int"
            /\ v < lo => f_output.value.num = lo
            /\ v > hi => f_output.value.num = hi
            /\ (lo <= v /\ v <= hi) => f_output.value = f_input.value
            /\ lo <= f_output.value.num
            /\ f_output.value.num <= hi

\* C14 witness: a value above max comes back as max
C14_Witness ==
    /\ f_output.done
    /\ NumberFilterCase
    /\ f_input.value.num > Get(f_input.config, "max").num
    /\ Get(f_input.config, "min").num < Get(f_input.config, "max").num
    /\ f_output.value = Num(Get(f_input.config, "max").num)

\* the items of the input that are dicts, by their position
DictItems == { i \in 1..Len(t_input.data.items) : t_input.data.items[i].dict }

\* the entries of field_mapping, by position, whose source field the record
\* has, and their targets
PresentEntries(record) ==
    { i \in 1..Len(t_input.field_mapping) :
        t_input.field_mapping[i].source \in DOMAIN record.fields }
MappedTargets(record) ==
    { t_input.field_mapping[i].target : i \in PresentEntries(record) }

\* neither a filter nor a validation rule is configured for the field
Untouched(field) ==
    /\ field \notin DOMAIN t_input.field_filters
    /\ field \notin DOMAIN t_input.data_validation

\* C12 as claimed: the output's keys are exactly the targets of the mapping
\* entries whose source field is present, each holding the source field's
\* value; unmapped fields are dropped and a missing source adds no key.
C12_MappingKeepsEverySource ==
    t_output.done =>
        \A i \in DictItems :
            LET record == t_input.data.items[i]
                out    == t_output.data.items[i]
            IN  /\ DOMAIN out.fields = MappedTargets(record)
                /\ \A e \in PresentEntries(record) :
                      Untouched(t_input.field_mapping[e].target) =>
                          out.fields[t_input.field_mapping[e].target]
                             = record.fields[t_input.field_mapping[e].source]

\* the last entry of field_mapping with this target whose source is present
LastEntryFor(record, target) ==
    CHOOSE e \in PresentEntries(record) :
        /\ t_input.field_mapping[e].target = target
        /\ \A e2 \in PresentEntries(record) :
              t_input.field_mapping[e2].target = target => e2 <= e

\* C12 as amended: the output's keys are exactly the targets of the mapping
\* entries whose source field is present; a target holds the value of the
\* source field mapped to it, and of the one written last in field_mapping
\* when several present source fields share the target.
C12_MappingLastSourceWins ==
    t_output.done =>
        \A i \in DictItems :
            LET record == t_input.data.items[i]
                out    == t_output.data.items[i]
            IN  /\ DOMAIN out.fields = MappedTargets(record)
                /\ \A target \in MappedTargets(record) :
                      Untouched(target) =>
                          out.fields[target]
                             = record.fields[
                                 t_input.field_mapping[LastEntryFor(record, target)].source]

\* C12 witness: mapping id -> user_id and name -> user_name applied to a
\* record that has only an id gives exactly {user_id: id}
C12_Witness ==
    /\ t_output.done
    /\ ~t_input.data.list
    /\ t_input.data.items[1].dict
    /\ DOMAIN t_input.data.items[1].fields = {"id"}
    /\ t_input.field_mapping =
          << [ source |-> "id", target |-> "user_id" ],
             [ source |-> "name", target |-> "user_name" ] >>
    /\ t_input.field_filters = EmptyDict
    /\ t_input.data_validation = EmptyDict
    /\ DOMAIN t_output.data.items[1].fields = {"user_id"}
    /\ t_output.data.items[1].fields["user_id"] = t_input.data.items[1].fields["id"]

\* the fields of a record after the mapping and the filter loops
Filtered(record) ==
    ApplyFilters(ApplyMapping(EmptyDict, record, t_input.field_mapping, 1),
                 t_input.field_filters)

\* the field of the filtered record fails its validation rule
FailsValidation(record, field) ==
    /\ field \in DOMAIN t_input.data_validation
    /\ ~ValidateField(Filtered(record)[field], t_input.data_validation[field])

\* the field is required and is an empty string or None after the filters
RequiredButEmpty(record, field) ==
    /\ field \in DOMAIN t_input.data_validation
    /\ FlagSet(t_input.data_validation[field], "required")
    /\ Filtered(record)[field] \in { Str(<< >>), NoneValue }

\* C15: a mapped field that fails validation (for instance {required: true}
\* on an empty string or on None) is set to None and keeps its key; every
\* other field keeps its key and value, the record is not dropped, and no
\* error is raised.
C15_InvalidFieldSetToNone ==
    t_output.done =>
        /\ ~t_output.raised
        /\ Len(t_output.data.items) = Len(t_input.data.items)
        /\ \A i \in DictItems :
              LET record == t_input.data.items[i]
                  out    == t_output.data.items[i]
              IN  /\ out.dict
                  /\ DOMAIN out.fields = DOMAIN Filtered(record)
                  /\ \A field \in DOMAIN out.fields :
                        /\ RequiredButEmpty(record, field) => out.fields[field] = NoneValue
                        /\ out.fields[field] =
                              IF FailsValidation(record, field)
                              THEN NoneValue
                              ELSE Filtered(record)[field]

\* C15 witness: the first record of a list has an empty id, required under
\* user_id, and a name; user_id comes back as None, user_name untouched
C15_Witness ==
    /\ t_output.done
    /\ t_input.data.list
    /\ Len(t_output.data.items) = 2
    /\ t_input.data.items[1].dict
    /\ DOMAIN t_input.data.items[1].fields = {"id", "name"}
    /\ t_input.data.items[1].fields["id"] = Str(<< >>)
    /\ t_input.data.items[1].fields["name"] = Str(<< " ", "J" >>)
    /\ t_input.field_mapping =
          << [ source |-> "id", target |-> "user_id" ],
             [ source |-> "name", target |-> "user_name" ] >>
    /\ "user_id" \in DOMAIN t_input.data_validation
    /\ t_input.data_validation["user_id"] = ConfigDict(<< FlagEntry("required", TRUE) >>)
    /\ t_output.data.items[1].fields["user_id"] = NoneValue
    /\ t_output.data.items[1].fields["user_name"] = Str(<< " ", "J" >>)

\* the validation rule {type: number, min: 0}
NumberMinRule == ConfigDict(<< TextEntry("type", "number"), NumEntry("min", 0) >>)

\* C16: a mapped numeric field whose validation rule is {type: number,
\* min: m} and whose value is below m fails validation and is set to None
\* in the transformed record.
C16_BelowMinSetToNone ==
    t_output.done =>
        \A i \in DictItems :
            \A field \in DOMAIN t_output.data.items[i].fields :
                ( /\ field \in DOMAIN t_input.data_validation
                  /\ t_input.data_validation[field] = NumberMinRule
                  /\ Filtered(t_input.data.items[i])[field].kind = "int"
                  /\ Filtered(t_input.data.items[i])[field].num
                        < Get(NumberMinRule, "min").num )
                => t_output.data.items[i].fields[field] = NoneValue

\* the scraping phase of the job has begun
ScrapingBegun == j_session # "none"

\* the fetches made so far that returned, by their position
Returned == { i \in 1..Len(j_outcomes) : j_outcomes[i].raises = "none" }

\* every fetch made so far returned or failed with RateLimitExceededError
\* or ApiClientError
OnlySkippableFailures ==
    \A i \in 1..Len(j_outcomes) :
        j_outcomes[i].raises \in {"none", "RateLimitExceededError", "ApiClientError"}

\* some fetch made so far failed with one of these two errors
SomeFetchSkipped ==
    \E i \in 1..Len(j_outcomes) :
        j_outcomes[i].raises \in {"RateLimitExceededError", "ApiClientError"}

\* C17: a fetch that fails with RateLimitExceededError or ApiClientError
\* skips only that endpoint: every later endpoint is still fetched, each
\* endpoint exactly once and in configuration order, and the job completes
\* with a result whose endpoints_scraped is the number of endpoints whose
\* fetch returned.
C17_FailedFetchSkipsEndpoint ==
    (ScrapingBegun /\ OnlySkippableFailures /\ SomeFetchSkipped) =>
        /\ \A i \in 1..Len(j_fetched) : j_fetched[i] = i
        /\ j_pc # "loop" =>
              /\ Len(j_fetched) = Len(j_endpoints)
              /\ scraping_result.set
              /\ scraping_result.status = "completed"
              /\ scraping_result.endpoints_scraped = Cardinality(Returned)

C19_OtherErrorStillReturns ==
    ( /\ j_pc = "done"
      /\ j_outcomes # << >>
      /\ j_outcomes[Len(j_outcomes)].raises = "ValueError" ) =>
        /\ j_raised = "none"
        /\ scraping_result.set
        /\ Returned = {} =>
              /\ scraping_result.endpoints_scraped = 0
              /\ scraping_result.records_processed = 0

\* C20: the session is None before the client is entered, not None inside
\* the block, and None again after the block has exited.
C20_SessionNoneOutsideBlock ==
    /\ session = "none"
    /\ [][ /\ (session = "none" /\ session' # session) => session' = "open"
           /\ (session = "open" /\ session' # session) => session' = "none" ]_vars

\* the field is the target of a mapping entry, but of none whose source
\* field the record has
SourceMissing(record, field) ==
    /\ \E e \in 1..Len(t_input.field_mapping) : t_input.field_mapping[e].target = field
    /\ field \notin MappedTargets(record)

\* C30: validation rules are applied only to fields present in the record
\* after mapping: a field with {required: true} whose source field is
\* missing from the input record gets no key in the transformed record
\* (neither a value nor None), and the fields that are present are not
\* affected by it.
C30_MissingSourceNotValidated ==
    t_output.done =>
        \A i \in DictItems :
            LET record == t_input.data.items[i]
                out    == t_output.data.items[i]
            IN  \A field \in DOMAIN t_input.data_validation :
                    ( /\ FlagSet(t_input.data_validation[field], "required")
                      /\ SourceMissing(record, field) )
                    => /\ field \notin DOMAIN out.fields
                       /\ DOMAIN out.fields = MappedTargets(record)

\* C30 witness: user_id is required and mapped from id, the record has
\* only a name: the output is exactly {user_name: name}
C30_Witness ==
    /\ t_output.done
    /\ ~t_input.data.list
    /\ t_input.data.items[1].dict
    /\ DOMAIN t_input.data.items[1].fields = {"name"}
    /\ t_input.field_mapping =
          << [ source |-> "id", target |-> "user_id" ],
             [ source |-> "name", target |-> "user_name" ] >>
    /\ DOMAIN t_input.data_validation = {"user_id"}
    /\ t_input.data_validation["user_id"] = ConfigDict(<< FlagEntry("required", TRUE) >>)
    /\ DOMAIN t_output.data.items[1].fields = {"user_name"}

\* the job is over and returned its result
JobCompleted == j_pc = "done" /\ j_raised = "none" /\ scraping_result.set

\* C29 as claimed: after a completed job every endpoint counted in
\* endpoints_scraped has its data stored under its name, so
\* endpoints_scraped equals the number of names in scraped_endpoints.
C29_EveryScrapedEndpointStored ==
    JobCompleted =>
        scraping_result.endpoints_scraped = Len(scraping_result.scraped_endpoints)

\* the fetches that returned data that is not empty, by their position
StoredFetches == { i \in Returned : DataTruthy(j_outcomes[i]) }

\* C29 as amended: after a completed job endpoints_scraped is the number
\* of endpoints whose fetch returned, and scraped_endpoints holds, once
\* each, the names of those among them whose data was not empty; so
\* endpoints_scraped is at least the number of names in scraped_endpoints,
\* and equal to it only if no counted endpoint returned empty data and no
\* two of them share a name.
C29_StoredOnlyIfDataAndOncePerName ==
    JobCompleted =>
        LET names == scraping_result.scraped_endpoints
        IN  /\ scraping_result.endpoints_scraped = Cardinality(Returned)
            /\ { names[k] : k \in 1..Len(names) }
                  = { j_endpoints[i] : i \in StoredFetches }
            /\ \A k, l \in 1..Len(names) : names[k] = names[l] => k = l
            /\ Len(names) <= scraping_result.endpoints_scraped
            /\ Len(names) = scraping_result.endpoints_scraped
                  <=> /\ StoredFetches = Returned
                      /\ \A i, k \in Returned :
                            j_endpoints[i] = j_endpoints[k] => i = k

\* C29 witness: three endpoints counted, one of them returned empty data
\* and the two others share a name: one name is stored
C29_Witness ==
    /\ JobCompleted
    /\ scraping_result.endpoints_scraped = 3
    /\ Len(scraping_result.scraped_endpoints) = 1
    /\ \E i \in Returned : ~DataTruthy(j_outcomes[i])
    /\ \E i, k \in StoredFetches : i # k /\ j_endpoints[i] = j_endpoints[k]

\* str.lower of a part of a content type
LowerPart(part) ==
    CASE part = "Application/JSON" -> "application/json"
      [] part = "APPLICATION/XML" -> "application/xml"
      [] part = "Text/Xml" -> "text/xml"
      [] OTHER -> part

\* the decoder a content type names when its letters' case is ignored
DecoderAnyCase(content_type) ==
    LET lowered == [ i \in 1..Len(content_type) |-> LowerPart(content_type[i]) ]
    IN  IF In("application/json", lowered) THEN "json"
        ELSE IF In("application/xml", lowered) \/ In("text/xml", lowered)
        THEN "xml"
        ELSE "text"

\* C21: _parse_response picks the decoder by the content type matched as a
\* substring whatever the case of its letters: JSON for "application/json",
\* XML for "application/xml" or "text/xml", raw text for anything else.
C21_DecoderIgnoresCase ==
    p_output.done => p_output.decoder = DecoderAnyCase(p_input.content_type)

\* this step of the retry loop hands a request to the open session
Dispatches == pc = "attempt" /\ session = "open" /\ calls' = calls + 1

\* C22: every attempt make_request dispatches through the session appends
\* exactly one timestamp to request_times, whether it ends in a response or
\* in a transport error, and nothing else appends to the log.
C22_EveryDispatchLogged ==
    [][ IF Dispatches
        THEN Len(request_times') = Len(request_times) + 1
        ELSE Len(request_times') <= Len(request_times) ]_vars

\* the logged requests less than `window` seconds older than the newest one
WithinOfNewest(window) ==
    { i \in 1..Len(request_times) :
        request_times[Len(request_times)] - request_times[i] < window }

\* C23: for one client used by sequential calls from an empty log, in every
\* reachable state at most requests_per_minute logged requests lie within
\* the 60 seconds up to the newest entry and at most requests_per_hour
\* within the 3600 seconds up to it.
C23_WindowsWithinLimits ==
    /\ Cardinality(WithinOfNewest(MinuteWindow)) <= rate_limit.requests_per_minute
    /\ Cardinality(WithinOfNewest(HourWindow)) <= rate_limit.requests_per_hour

\* the per-minute window is full and one call more has been turned away
C23_Witness ==
    /\ rate_limit.requests_per_minute >= 1
    /\ Cardinality(WithinOfNewest(MinuteWindow)) = rate_limit.requests_per_minute
    /\ result = "RateLimitExceededError"
    /\ nreq = rate_limit.requests_per_minute + 1

\* the logged requests less than `window` seconds old at the start of a call
InWindow(window) ==
    { i \in 1..Len(request_times) : now - request_times[i] < window }

\* a call starts with neither limit reached
BelowLimits ==
    /\ pc = "idle"
    /\ nreq' = nreq + 1
    /\ Cardinality(InWindow(HourWindow)) < rate_limit.requests_per_hour
    /\ Cardinality(InWindow(MinuteWindow)) < rate_limit.requests_per_minute

\* seconds since the most recent logged request
Elapsed == now - request_times[Len(request_times)]

\* C24: when neither limit is reached and the most recent logged request
\* is less than delay_between_requests old, make_request waits for the
\* delay minus the elapsed time and then goes on to dispatch without running
\* the limit checks again; pacing alone never rejects, and with an empty log
\* or enough time elapsed there is no wait.
C24_PacingWaitsThenProceeds ==
    [][ /\ BelowLimits
           => /\ pc' = "attempt"
              /\ result' = "none"
              /\ IF request_times # << >>
                    /\ Elapsed < rate_limit.delay_between_requests
                 THEN /\ paced' = rate_limit.delay_between_requests - Elapsed
                      /\ now' = now + paced'
                 ELSE /\ paced' = 0
                      /\ now' = now
        /\ pc = "attempt" => result' # "RateLimitExceededError" ]_vars

\* a call that found its predecessor too recent waited for the rest of the
\* delay and got its response
C24_Witness ==
    /\ paced > 0
    /\ paced < rate_limit.delay_between_requests
    /\ result = "ok"

\* C25: for one client used by sequential calls, any two consecutive entries
\* of request_times are at least delay_between_requests seconds apart.
C25_MinimumSpacing ==
    \A i \in 1..(Len(request_times) - 1) :
        request_times[i + 1] - request_times[i]
            >= rate_limit.delay_between_requests

\* two requests logged exactly the delay apart, the second after a pacing
\* wait
C25_Witness ==
    /\ rate_limit.delay_between_requests > 0
    /\ Len(request_times) >= 2
    /\ paced > 0
    /\ request_times[Len(request_times)] - request_times[Len(request_times) - 1]
           = rate_limit.delay_between_requests

\* C26: for every rate-limit policy (limits of 0 included), every log and
\* every transport behaviour, make_request returns an outcome or raises
\* ApiClientError or RateLimitExceededError; no other exception escapes.
C26_OnlyDeclaredErrors ==
    result \in {"none", "ok", "ApiClientError", "RateLimitExceededError"}

\* this step of the retry loop ends in `except ClientError`: the transport
\* raised it, or reading the body of the response did
FailsTransiently ==
    /\ Dispatches
    /\ \/ IsTransient(script[calls + 1])
       \/ body_read' = "ClientError"

TimesOut == Dispatches /\ script[calls + 1] = TimeoutError

\* C28: expiry of the per-endpoint timeout during an attempt is handled as
\* any transient transport error: the attempt is retried with backoff, and
\* make_request fails only once the retry budget is used up.
C28_TimeoutRetried ==
    [][ TimesOut /\ attempt < endpoint.retry_attempts
          => /\ pc' = "attempt"
             /\ attempt' = attempt + 1
             /\ waits' = Append(waits, Backoff(attempt)) ]_vars

====
